---------------------------- MODULE Spec2Model ----------------------------
(***************************************************************************)
(* Model of the leafwing_terminal session state machine: the edit buffer,  *)
(* the scrollback, the bounded command history with its navigation index,  *)
(* and the command-entered event channel fed by the UI system.             *)
(*                                                                         *)
(* A Rust String is modelled as a sequence of one-character strings; a     *)
(* fixed literal of the program ("$ ", the error line) is one element.     *)
(* VecDeque / Vec index i of the program is index i + 1 of the sequence.   *)
(***************************************************************************)
EXTENDS Naturals, Integers, Sequences, FiniteSets, TLC

VARIABLES
    buf,              \* TerminalState::buf, the edit buffer
    scrollback,       \* TerminalState::scrollback
    history,          \* TerminalState::history (slot 0 is the scratch slot)
    history_index,    \* TerminalState::history_index
    history_size,     \* TerminalConfiguration::history_size
    command_entered,  \* Events<TerminalCommandEntered>: the two event buffers
    ran,              \* systems that have already run in the current frame
    key,              \* the input the text edit received in the current frame
    browse,           \* observer: the history browse in progress, if any
    print_line,       \* Events<PrintTerminalLine>: the two event buffers
    reader,           \* per reading system: buffered events it has read
    command,          \* per binder: TerminalCommand::command after its run
    taken,            \* per binder: what the handler's take() returned
    chk_help,         \* whether the host's chk command stores help
    sent,             \* observer: the print lines sent, where recorded
    commands,         \* TerminalConfiguration::commands, in key order
    startup           \* command types whose registration has not run yet

sessionVars == <<buf, scrollback, history, history_index, history_size,
                 command_entered, ran, key, browse>>
dispatchVars == <<print_line, reader, command, taken, chk_help, sent>>
registryVars == <<commands, startup>>

vars == <<sessionVars, dispatchVars, registryVars>>

----------------------------------------------------------------------------
(* Bounds of the model.                                                    *)

\* largest history_size a session is configured with
MaxHistorySize == 2
\* scrollback lines a session may accumulate before Submit is cut off
MaxScrollback == 3

----------------------------------------------------------------------------
(* Strings.                                                                *)

Quote == "\""
Backslash == "\\"
Space == " "

Empty == <<>>
LineA == <<"a">>
LineB == <<"b">>
LineC == <<"c">>
\* a, then an argument whose opening quote is never closed
LineUnterminated == <<"a", Space, Quote>>
LineSpaces == <<Space>>

\* the texts the text edit widget can leave in the edit buffer
Lines == {Empty, LineSpaces, LineA, LineB, LineC, LineUnterminated}

\* str::trim().is_empty()
IsEmptyNoTrim(s) == s = <<>>
TrimIsEmpty(s) == \A i \in 1..Len(s) : s[i] = Space

\* format!("$ {}", buf)
EchoLine(s) == <<"$ ">> \o s

ErrorLine == <<"[error] invalid argument(s)">>

----------------------------------------------------------------------------
(* The line parser (leafwing_terminal_parser::parse_terminal_command).     *)

ParseErr == [ok |-> FALSE, command |-> Empty, args |-> <<>>]

Digits == {"0", "1", "2", "3", "4", "5", "6", "7", "8", "9"}

RECURSIVE SkipSpaces(_, _)
SkipSpaces(s, i) ==
    IF i <= Len(s) /\ s[i] = Space THEN SkipSpaces(s, i + 1) ELSE i

\* index just past the bare token starting at i
RECURSIVE BareEnd(_, _)
BareEnd(s, i) ==
    IF i <= Len(s) /\ s[i] # Space THEN BareEnd(s, i + 1) ELSE i

\* index of the closing quote of a quoted token whose content starts at i,
\* or 0 when the token is not terminated
RECURSIVE QuotedEnd(_, _)
QuotedEnd(s, i) ==
    IF i > Len(s) THEN 0
    ELSE IF s[i] = Backslash THEN QuotedEnd(s, i + 2)
    ELSE IF s[i] = Quote THEN i
    ELSE QuotedEnd(s, i + 1)

RECURSIVE Unescape(_)
Unescape(s) ==
    IF s = <<>> THEN <<>>
    ELSE IF s[1] = Backslash /\ Len(s) >= 2
         THEN <<s[2]>> \o Unescape(SubSeq(s, 3, Len(s)))
    ELSE <<s[1]>> \o Unescape(Tail(s))

IsNumber(tok) ==
    LET body == IF tok # <<>> /\ tok[1] = "-" THEN Tail(tok) ELSE tok
        dots == {i \in 1..Len(body) : body[i] = "."}
    IN /\ \E i \in 1..Len(body) : body[i] \in Digits
       /\ \A i \in 1..Len(body) : body[i] \in Digits \cup {"."}
       /\ Cardinality(dots) <= 1

BareValue(tok) ==
    IF tok = <<"t", "r", "u", "e">> THEN [tag |-> "Bool", val |-> tok]
    ELSE IF tok = <<"f", "a", "l", "s", "e">> THEN [tag |-> "Bool", val |-> tok]
    ELSE IF IsNumber(tok) THEN [tag |-> "Number", val |-> tok]
    ELSE [tag |-> "String", val |-> tok]

\* the arguments from position i on: [ok, args]
RECURSIVE ParseArgs(_, _)
ParseArgs(s, i) ==
    LET j == SkipSpaces(s, i) IN
    IF j > Len(s) THEN [ok |-> TRUE, args |-> <<>>]
    ELSE IF s[j] = Quote
    THEN LET e == QuotedEnd(s, j + 1) IN
         IF e = 0 THEN [ok |-> FALSE, args |-> <<>>]
         ELSE LET rest == ParseArgs(s, e + 1)
                  v == [tag |-> "String",
                        val |-> Unescape(SubSeq(s, j + 1, e - 1))]
              IN [ok |-> rest.ok, args |-> <<v>> \o rest.args]
    ELSE LET e == BareEnd(s, j)
             rest == ParseArgs(s, e)
         IN [ok |-> rest.ok,
             args |-> <<BareValue(SubSeq(s, j, e - 1))>> \o rest.args]

parse_terminal_command(s) ==
    LET j == SkipSpaces(s, 1)
        e == BareEnd(s, j)
        rest == ParseArgs(s, e)
    IN IF j > Len(s) \/ ~rest.ok THEN ParseErr
       ELSE [ok |-> TRUE, command |-> SubSeq(s, j, e - 1), args |-> rest.args]

----------------------------------------------------------------------------
(* Pieces of terminal_ui.                                                  *)

\* history.insert(1, cmd); if history.len() > history_size + 1 { pop_back }
InsertHistoryNoTrim(h, s, k) == <<h[1], s>> \o Tail(h)
InsertHistoryPushBack(h, s, k) ==
    LET h1 == Append(h, s) IN
    IF Len(h1) > k + 1 THEN SubSeq(h1, 1, Len(h1) - 1) ELSE h1
InsertHistoryPopFront(h, s, k) ==
    LET h1 == <<h[1], s>> \o Tail(h) IN
    IF Len(h1) > k + 1 THEN Tail(h1) ELSE h1
InsertHistory(h, s, k) ==
    LET h1 == <<h[1], s>> \o Tail(h) IN
    IF Len(h1) > k + 1 THEN SubSeq(h1, 1, Len(h1) - 1) ELSE h1

\* the lines a Submit pushes onto the scrollback
SubmitLinesErrorFirst(s) ==
    IF TrimIsEmpty(s) THEN <<Empty>>
    ELSE IF parse_terminal_command(s).ok THEN <<EchoLine(s)>>
    ELSE <<ErrorLine, EchoLine(s)>>
SubmitLinesNoEcho(s) ==
    IF TrimIsEmpty(s) THEN <<Empty>>
    ELSE IF parse_terminal_command(s).ok THEN <<>>
    ELSE <<ErrorLine>>
SubmitLines(s) ==
    IF TrimIsEmpty(s) THEN <<Empty>>
    ELSE IF parse_terminal_command(s).ok THEN <<EchoLine(s)>>
    ELSE <<EchoLine(s), ErrorLine>>

\* the TerminalCommandEntered events a Submit sends
SubmitEventsAlways(s) ==
    IF TrimIsEmpty(s) THEN <<>>
    ELSE LET cmd == parse_terminal_command(s) IN
         <<[command |-> cmd.command, args |-> cmd.args]>>
SubmitEvents(s) ==
    IF TrimIsEmpty(s) THEN <<>>
    ELSE LET cmd == parse_terminal_command(s) IN
         IF cmd.ok THEN <<[command |-> cmd.command, args |-> cmd.args]>>
         ELSE <<>>

\* the edit buffer a Submit leaves
SubmitBufClearOnOk(s) ==
    IF TrimIsEmpty(s) \/ ~parse_terminal_command(s).ok THEN s ELSE Empty
SubmitBuf(s) ==
    IF TrimIsEmpty(s) THEN s ELSE Empty

\* the history a Submit leaves
SubmitHistoryOnOk(h, s, k) ==
    IF TrimIsEmpty(s) \/ ~parse_terminal_command(s).ok THEN h
    ELSE InsertHistory(h, s, k)
SubmitHistory(h, s, k) ==
    IF TrimIsEmpty(s) THEN h ELSE InsertHistory(h, s, k)

\* ArrowUp: [history, history_index, buf] after the key press
HistoryUpClamp(h, i, b) ==
    IF Len(h) > 1
    THEN LET h1 == IF i = 0 /\ ~TrimIsEmpty(b) THEN [h EXCEPT ![1] = b] ELSE h
             i1 == IF i < Len(h) - 1 THEN i + 1 ELSE i
         IN [history |-> h1, history_index |-> i1, buf |-> h1[i1 + 1]]
    ELSE [history |-> h, history_index |-> i, buf |-> b]
\* guard off by one: the index is stepped past the oldest entry, where
\* get(history_index) finds nothing to load
HistoryUpOffByOne(h, i, b) ==
    IF Len(h) > 1 /\ i < Len(h)
    THEN LET h1 == IF i = 0 /\ ~TrimIsEmpty(b) THEN [h EXCEPT ![1] = b] ELSE h
         IN [history |-> h1, history_index |-> i + 1,
             buf |-> IF i + 2 <= Len(h1) THEN h1[i + 2] ELSE b]
    ELSE [history |-> h, history_index |-> i, buf |-> b]
HistoryUpNoSnapshot(h, i, b) ==
    IF Len(h) > 1 /\ i < Len(h) - 1
    THEN [history |-> h, history_index |-> i + 1, buf |-> h[i + 2]]
    ELSE [history |-> h, history_index |-> i, buf |-> b]
HistoryUp(h, i, b) ==
    IF Len(h) > 1 /\ i < Len(h) - 1
    THEN LET h1 == IF i = 0 /\ ~TrimIsEmpty(b) THEN [h EXCEPT ![1] = b] ELSE h
         IN [history |-> h1, history_index |-> i + 1, buf |-> h1[i + 2]]
    ELSE [history |-> h, history_index |-> i, buf |-> b]

\* ArrowDown: [history, history_index, buf] after the key press
HistoryDownStale(h, i, b) ==
    IF i > 0
    THEN [history |-> h, history_index |-> i - 1, buf |-> h[i + 1]]
    ELSE [history |-> h, history_index |-> i, buf |-> b]
HistoryDownReload(h, i, b) ==
    IF i > 0
    THEN [history |-> h, history_index |-> i - 1, buf |-> h[i]]
    ELSE [history |-> h, history_index |-> i, buf |-> h[1]]
HistoryDown(h, i, b) ==
    IF i > 0
    THEN [history |-> h, history_index |-> i - 1, buf |-> h[i]]
    ELSE [history |-> h, history_index |-> i, buf |-> b]

----------------------------------------------------------------------------
(* Command types and the registry.                                         *)

\* Option<T>: None is the empty sequence, Some(v) is <<v>>
None == <<>>
Some(v) == <<v>>

NameClear == <<"c", "l", "e", "a", "r">>
NameExit == <<"e", "x", "i", "t">>
NameHelp == <<"h", "e", "l", "p">>
NameLog == <<"l", "o", "g">>
NameChk == <<"c", "h", "k">>

\* CommandArgInfo
ArgInfo(name, ty, description, optional) ==
    [name |-> name, ty |-> ty, description |-> description,
     optional |-> optional]

\* CommandInfo
Info(name, description, args) ==
    [name |-> name, description |-> description, args |-> args]

ClearInfo == Info(NameClear, Some(<<"Clears the terminal">>), <<>>)
ExitInfo == Info(NameExit, Some(<<"Exits the app">>), <<>>)
HelpInfo ==
    Info(NameHelp, Some(<<"Prints available arguments and usage">>),
         <<ArgInfo(<<"c", "o", "m", "m", "a", "n", "d">>,
                   <<"s", "t", "r", "i", "n", "g">>,
                   Some(<<"Help for a given command">>), TRUE)>>)
LogInfo ==
    Info(NameLog, Some(<<"Prints given arguments to the terminal">>),
         <<ArgInfo(<<"m", "s", "g">>, <<"s", "t", "r", "i", "n", "g">>,
                   Some(<<"Message to print">>), FALSE),
           ArgInfo(<<"n", "u", "m">>, <<"i", "n", "t">>,
                   Some(<<"Number of times to print message">>), TRUE)>>)
ChkInfo ==
    Info(NameChk, None,
         <<ArgInfo(<<"n">>, <<"i", "n", "t">>, None, FALSE)>>)

\* the command types of the app: the three of TerminalPlugin, the log
\* command of the example, a hand-written log command that keeps the
\* default command_help, and the host's chk command
BuiltinTypes == <<"ClearCommand", "ExitCommand", "HelpCommand">>
CommandTypes ==
    {"ClearCommand", "ExitCommand", "HelpCommand", "LogCommand",
     "PlainLogCommand", "ChkCommand"}

\* T::command_name()
command_name(T) ==
    CASE T = "ClearCommand" -> NameClear
      [] T = "ExitCommand" -> NameExit
      [] T = "HelpCommand" -> NameHelp
      [] T = "LogCommand" -> NameLog
      [] T = "PlainLogCommand" -> NameLog
      [] T = "ChkCommand" -> NameChk

\* T::command_help(), given whether the host's chk command stores help
command_help(T, chk) ==
    CASE T = "ClearCommand" -> Some(ClearInfo)
      [] T = "ExitCommand" -> Some(ExitInfo)
      [] T = "HelpCommand" -> Some(HelpInfo)
      [] T = "LogCommand" -> Some(LogInfo)
      [] T = "PlainLogCommand" -> None
      [] T = "ChkCommand" -> IF chk THEN Some(ChkInfo) ELSE None

\* the order of str: bytewise, a proper prefix first
Alphabet ==
    <<"a", "b", "c", "d", "e", "f", "g", "h", "i", "j", "k", "l", "m",
      "n", "o", "p", "q", "r", "s", "t", "u", "v", "w", "x", "y", "z">>
Rank(c) == CHOOSE i \in 1..Len(Alphabet) : Alphabet[i] = c

RECURSIVE StrLess(_, _)
StrLess(a, b) ==
    IF b = <<>> THEN FALSE
    ELSE IF a = <<>> THEN TRUE
    ELSE IF a[1] = b[1] THEN StrLess(Tail(a), Tail(b))
    ELSE Rank(a[1]) < Rank(b[1])

\* BTreeMap::contains_key
ContainsKey(m, k) == \E i \in 1..Len(m) : m[i].key = k

\* BTreeMap::insert: the entry of an equal key is overwritten, a new key
\* goes to its place in key order
BTreeInsertKeepOld(m, k, v) ==
    IF ContainsKey(m, k) THEN m
    ELSE LET n == Cardinality({i \in 1..Len(m) : StrLess(m[i].key, k)})
         IN SubSeq(m, 1, n) \o <<[key |-> k, value |-> v]>>
               \o SubSeq(m, n + 1, Len(m))
BTreeInsertAppend(m, k, v) ==
    IF ContainsKey(m, k)
    THEN [i \in 1..Len(m) |->
             IF m[i].key = k THEN [key |-> k, value |-> v] ELSE m[i]]
    ELSE Append(m, [key |-> k, value |-> v])
BTreeInsert(m, k, v) ==
    IF ContainsKey(m, k)
    THEN [i \in 1..Len(m) |->
             IF m[i].key = k THEN [key |-> k, value |-> v] ELSE m[i]]
    ELSE LET n == Cardinality({i \in 1..Len(m) : StrLess(m[i].key, k)})
         IN SubSeq(m, 1, n) \o <<[key |-> k, value |-> v]>>
               \o SubSeq(m, n + 1, Len(m))

\* BTreeMap::get
BTreeGet(m, k) ==
    IF ContainsKey(m, k)
    THEN Some(m[CHOOSE i \in 1..Len(m) : m[i].key = k].value)
    ELSE None

\* the startup system add_terminal_command::<T> adds
register(m, T, chk) == BTreeInsert(m, command_name(T), command_help(T, chk))

\* the registry once the startup systems of TerminalPlugin have run
BuiltinCommands ==
    register(register(register(<<>>, BuiltinTypes[1], FALSE),
                      BuiltinTypes[2], FALSE), BuiltinTypes[3], FALSE)

\* the systems that read an event channel
Readers == {"clear_command", "chk_command", "receive_terminal_line"}
\* the systems with a TerminalCommand parameter
Binders == {"clear_command", "chk_command"}

DispatchIdle ==
    /\ print_line = [old |-> <<>>, new |-> <<>>]
    /\ reader = [r \in Readers |-> 0]
    /\ command = [b \in Binders |-> None]
    /\ taken = [b \in Binders |-> None]
    /\ sent = <<>>

SessionFresh ==
    /\ buf = Empty
    /\ scrollback = <<>>
    /\ history = <<Empty>>
    /\ history_index = 0
    /\ command_entered = [old |-> <<>>, new |-> <<>>]
    /\ ran = {}
    /\ key = "None"
    /\ browse = [phase |-> "off", t |-> Empty, n |-> 0]

\* the app at startup, before any registration has run
InitRegistry ==
    /\ SessionFresh
    /\ history_size = 1
    /\ DispatchIdle
    /\ chk_help \in BOOLEAN
    /\ commands = <<>>
    /\ startup = CommandTypes

\* one of the registration startup systems runs
Register ==
    /\ \E T \in startup :
          /\ commands' = register(commands, T, chk_help)
          /\ startup' = startup \ {T}
    /\ UNCHANGED <<sessionVars, dispatchVars>>

NextRegistry == Register

SpecRegistry == InitRegistry /\ [][NextRegistry]_vars

----------------------------------------------------------------------------
(* Frames.                                                                 *)

Systems == {"terminal_ui"}

NoBrowse == [phase |-> "off", t |-> Empty, n |-> 0]

Init ==
    /\ DispatchIdle
    /\ chk_help = FALSE
    /\ commands = BuiltinCommands
    /\ startup = {}
    /\ buf = Empty
    /\ scrollback = <<>>
    /\ history = <<Empty>>
    /\ history_index = 0
    /\ history_size \in 1..MaxHistorySize
    /\ command_entered = [old |-> <<>>, new |-> <<>>]
    /\ ran = {}
    /\ key = "None"
    /\ browse = NoBrowse

\* Events::<TerminalCommandEntered>::update_system, first in every frame
EventsUpdate ==
    /\ ran = Systems
    /\ ran' = {}
    /\ key' = "None"
    /\ command_entered' = [old |-> command_entered.new, new |-> <<>>]
    /\ UNCHANGED <<buf, scrollback, history, history_index, history_size,
                   browse, dispatchVars, registryVars>>

UiRuns ==
    /\ "terminal_ui" \notin ran
    /\ ran' = ran \cup {"terminal_ui"}
    /\ UNCHANGED <<history_size, dispatchVars, registryVars>>

\* terminal_ui in a frame without input
Idle ==
    /\ UiRuns
    /\ key' = "None"
    /\ UNCHANGED <<buf, scrollback, history, history_index, command_entered,
                   browse>>

\* terminal_ui in a frame in which the text edit changed the buffer
TypeText ==
    /\ UiRuns
    /\ key' = "Text"
    /\ \E t \in Lines \ {buf} : buf' = t
    /\ browse' = NoBrowse
    /\ UNCHANGED <<scrollback, history, history_index, command_entered>>

\* terminal_ui in a frame in which Enter was pressed
Submit ==
    /\ UiRuns
    /\ Len(scrollback) + Len(SubmitLines(buf)) <= MaxScrollback
    /\ key' = "Enter"
    /\ scrollback' = scrollback \o SubmitLines(buf)
    /\ history' = SubmitHistory(history, buf, history_size)
    /\ command_entered' =
           [command_entered EXCEPT !.new = @ \o SubmitEvents(buf)]
    /\ buf' = SubmitBuf(buf)
    /\ browse' = NoBrowse
    /\ UNCHANGED history_index

\* terminal_ui in a frame in which ArrowUp was pressed
KeyArrowUp ==
    /\ UiRuns
    /\ key' = "ArrowUp"
    /\ LET r == HistoryUp(history, history_index, buf) IN
        /\ history' = r.history
        /\ history_index' = r.history_index
        /\ buf' = r.buf
        /\ browse' =
             IF r.history_index = history_index THEN NoBrowse
             ELSE IF history_index = 0 /\ ~TrimIsEmpty(buf)
                  THEN [phase |-> "up", t |-> buf, n |-> 1]
             ELSE IF browse.phase = "up"
                  THEN [browse EXCEPT !.n = @ + 1]
             ELSE NoBrowse
    /\ UNCHANGED <<scrollback, command_entered>>

\* terminal_ui in a frame in which ArrowDown was pressed
KeyArrowDown ==
    /\ UiRuns
    /\ key' = "ArrowDown"
    /\ LET r == HistoryDown(history, history_index, buf) IN
        /\ history' = r.history
        /\ history_index' = r.history_index
        /\ buf' = r.buf
        /\ browse' =
             IF r.history_index = history_index THEN NoBrowse
             ELSE IF browse.phase \in {"up", "down"}
                  THEN [browse EXCEPT !.phase = "down"]
             ELSE NoBrowse
    /\ UNCHANGED <<scrollback, command_entered>>

Next ==
    \/ EventsUpdate
    \/ Idle
    \/ TypeText
    \/ Submit
    \/ KeyArrowUp
    \/ KeyArrowDown

Spec == Init /\ [][Next]_vars

----------------------------------------------------------------------------
(* CommandInfo::help_text.                                                 *)

Repeat(c, n) == [i \in 1..n |-> c]

Max(S) == IF S = {} THEN 0 ELSE CHOOSE x \in S : \A y \in S : y <= x

\* str::lines(): the text between line feeds, without a last empty line
RECURSIVE SplitLines(_, _)
SplitLines(s, cur) ==
    IF s = <<>> THEN (IF cur = <<>> THEN <<>> ELSE <<cur>>)
    ELSE IF s[1] = "\n" THEN <<cur>> \o SplitLines(Tail(s), <<>>)
    ELSE SplitLines(Tail(s), Append(cur, s[1]))

\* s.chars().take_while(|c| *c == ' ').count()
RECURSIVE LeadingSpaces(_)
LeadingSpaces(s) ==
    IF s # <<>> /\ s[1] = Space THEN 1 + LeadingSpaces(Tail(s)) ELSE 0

\* 2usize.saturating_sub(spaces)
Indent(s) == IF LeadingSpaces(s) >= 2 THEN 0 ELSE 2 - LeadingSpaces(s)

\* a usage line that marks every argument as required
RECURSIVE UsageArgsAllRequired(_)
UsageArgsAllRequired(args) ==
    IF args = <<>> THEN <<>>
    ELSE <<Space, "<">> \o args[1].name \o <<">">>
            \o UsageArgsAllRequired(Tail(args))

RECURSIVE UsageArgs(_)
UsageArgs(args) ==
    IF args = <<>> THEN <<>>
    ELSE LET a == args[1] IN
         <<Space>> \o (IF a.optional THEN <<"[">> ELSE <<"<">>) \o a.name
            \o (IF a.optional THEN <<"]">> ELSE <<">">>)
            \o UsageArgs(Tail(args))

RECURSIVE IndentLines(_)
IndentLines(ls) ==
    IF ls = <<>> THEN <<>>
    ELSE Repeat(Space, Indent(ls[1])) \o ls[1] \o <<"\n">>
            \o IndentLines(Tail(ls))

RECURSIVE ArgTable(_, _, _)
ArgTable(args, wname, wty) ==
    IF args = <<>> THEN <<>>
    ELSE LET a == args[1] IN
         <<"    ">> \o a.name \o <<Space>>
            \o Repeat(Space, wname - Len(a.name))
            \o (IF a.optional THEN <<"[">> ELSE <<"<">>) \o a.ty
            \o (IF a.optional THEN <<"]">> ELSE <<">">>)
            \o Repeat(Space, wty - Len(a.ty))
            \o (IF a.description # None
                THEN <<"   - ">> \o a.description[1] \o <<"\n">>
                ELSE <<"\n">>)
            \o ArgTable(Tail(args), wname, wty)

help_text(info) ==
    <<"Usage:\n\n", "  > ">> \o info.name \o UsageArgs(info.args)
       \o <<"\n", "\n">>
       \o (IF info.description # None
           THEN IndentLines(SplitLines(info.description[1], <<>>)) \o <<"\n">>
           ELSE <<>>)
       \o ArgTable(info.args,
                   Max({Len(info.args[i].name) : i \in 1..Len(info.args)}),
                   Max({Len(info.args[i].ty) : i \in 1..Len(info.args)}))

----------------------------------------------------------------------------
(* Typed conversion (CommandArgs::from_values, FromValueError).            *)

\* the largest number the chk command's argument type holds
ChkMax == 7

RECURSIVE DigitsVal(_, _)
DigitsVal(tok, acc) ==
    IF tok = <<>> THEN acc
    ELSE DigitsVal(Tail(tok),
                   10 * acc + (CHOOSE d \in 0..9 :
                                  tok[1] = <<"0", "1", "2", "3", "4", "5",
                                             "6", "7", "8", "9">>[d + 1]))

Ok(v) == [ok |-> TRUE, value |-> v, err |-> "None"]
Err(kind) == [ok |-> FALSE, value |-> <<>>, err |-> kind]

\* the value of a Number as an integer
IntVal(tok) ==
    IF tok[1] = "-" THEN 0 - DigitsVal(Tail(tok), 0) ELSE DigitsVal(tok, 0)

\* T::from_values(&cmd.args)
from_values(T, args) ==
    CASE T = "ClearCommand" -> Ok([type |-> T])
      [] T = "HelpCommand" ->
           IF args = <<>> THEN Ok([type |-> T, command |-> None])
           ELSE IF args[1].tag # "String" THEN Err("UnexpectedArgType")
           ELSE Ok([type |-> T, command |-> Some(args[1].val)])
      [] T = "LogCommand" ->
           IF args = <<>> THEN Err("NotEnoughArgs")
           ELSE IF args[1].tag # "String" THEN Err("UnexpectedArgType")
           ELSE IF Len(args) < 2
                THEN Ok([type |-> T, msg |-> args[1].val, num |-> None])
           ELSE IF args[2].tag # "Number" THEN Err("UnexpectedArgType")
           ELSE IF \E i \in 1..Len(args[2].val) : args[2].val[i] = "."
                THEN Err("ValueTooLarge")
           ELSE Ok([type |-> T, msg |-> args[1].val,
                    num |-> Some(IntVal(args[2].val))])
      [] T = "ChkCommand" ->
           IF args = <<>> THEN Err("NotEnoughArgs")
           ELSE IF args[1].tag # "Number" THEN Err("UnexpectedArgType")
           ELSE IF \E i \in 1..Len(args[1].val) : args[1].val[i] \notin Digits
                THEN Err("ValueTooLarge")
           ELSE IF DigitsVal(args[1].val, 0) > ChkMax
                THEN Err("ValueTooLarge")
           ELSE IF DigitsVal(args[1].val, 0) = 0 THEN Err("Custom")
           ELSE Ok([type |-> T, n |-> DigitsVal(args[1].val, 0)])

\* err.to_string()
ErrorText(kind) == <<"error: ", kind>>

----------------------------------------------------------------------------
(* The binder (TerminalCommandState::get_param) and the handlers.          *)

\* the command type T of each system's TerminalCommand<T>
BinderType(b) ==
    CASE b = "clear_command" -> "ClearCommand"
      [] b = "chk_command" -> "ChkCommand"
      [] b = "help_command" -> "HelpCommand"
      [] b = "log_command" -> "LogCommand"

\* the events of a channel still in its buffers, oldest first
Buffered(events) == events.old \o events.new

\* the events a reader that has read n of them has not seen
Unseen(events, n) == SubSeq(Buffered(events), n + 1, Len(Buffered(events)))

\* .find(|cmd| cmd.command == T::command_name()): the position of the first
\* match among the unseen events, 0 when there is none
FindFirstAny(pend, name) == IF pend = <<>> THEN 0 ELSE 1
FindFirst(pend, name) ==
    IF \E i \in 1..Len(pend) : pend[i].command = name
    THEN CHOOSE i \in 1..Len(pend) :
            /\ pend[i].command = name
            /\ \A j \in 1..(i - 1) : pend[j].command # name
    ELSE 0

\* the events the iterator has yielded when find stops: up to the match,
\* or all of them
ConsumedAll(pend, m) == Len(pend)
Consumed(pend, m) == IF m = 0 THEN Len(pend) ELSE m

\* whether the help text follows the error text
WantsHelpAlways(kind) == TRUE
WantsHelp(kind) ==
    kind \in {"UnexpectedArgType", "NotEnoughArgs", "Custom"}

\* the lines get_param sends for the result of the conversion
BinderLinesHelpFirst(result, help) ==
    IF result.ok THEN <<>>
    ELSE (IF WantsHelp(result.err) /\ help # None
          THEN <<help_text(help[1])>> ELSE <<>>)
         \o <<ErrorText(result.err)>>
BinderLinesAck(result, help) ==
    IF result.ok THEN <<<<"[ok]">>>>
    ELSE <<ErrorText(result.err)>>
         \o (IF WantsHelp(result.err) /\ help # None
             THEN <<help_text(help[1])>> ELSE <<>>)
BinderLines(result, help) ==
    IF result.ok THEN <<>>
    ELSE <<ErrorText(result.err)>>
         \o (IF WantsHelp(result.err) /\ help # None
             THEN <<help_text(help[1])>> ELSE <<>>)

\* get_param for TerminalCommand<T> on the unseen events: the events the
\* reader consumed, the command field, and the lines sent
get_param(T, chk, pend) ==
    LET m == FindFirst(pend, command_name(T)) IN
    IF m = 0
    THEN [read |-> Consumed(pend, m), command |-> None, lines |-> <<>>]
    ELSE LET result == from_values(T, pend[m].args) IN
         [read |-> Consumed(pend, m),
          command |-> IF result.ok THEN Some(result.value) ELSE None,
          lines |-> BinderLines(result, command_help(T, chk))]

\* TerminalCommand::take: mem::take(&mut self.command)
TakeClone(slot) == [ret |-> slot, slot |-> slot]
Take(slot) == [ret |-> slot, slot |-> None]

\* clear_command: the scrollback it leaves
ClearScrollbackAlways(t, sb) == <<>>
ClearScrollback(t, sb) == IF t # None THEN <<>> ELSE sb

\* the handler of the chk command, as in the example of TerminalCommand:
\* if let Some(..) = chk.take() { chk.ok() }
ChkLines(t) == IF t # None THEN <<<<"[ok]">>>> ELSE <<>>

----------------------------------------------------------------------------
(* The dispatch specification: the UI, two binders and the print-line      *)
(* receiver, each once per frame and in any order. The lines entered name  *)
(* neither help nor exit, whose binders therefore never match and are      *)
(* left out.                                                               *)

\* scrollback lines, sent or still to come, that a Submit may bring about
MaxDispatchLines == 6

LineClear == NameClear
LineChk == NameChk
LineChkX == NameChk \o <<Space, "x">>
LineChk9 == NameChk \o <<Space, "9">>
LineChk0 == NameChk \o <<Space, "0">>
LineChk1 == NameChk \o <<Space, "1">>
LineNope == <<"n", "o", "p", "e">>

CommandLines ==
    {LineClear, LineChk, LineChkX, LineChk9, LineChk0, LineChk1, LineNope}

DispatchSystems ==
    {"terminal_ui", "clear_command", "chk_command", "receive_terminal_line"}

InitDispatch ==
    /\ SessionFresh
    /\ history_size = 1
    /\ DispatchIdle
    /\ chk_help \in BOOLEAN
    /\ commands = register(BuiltinCommands, "ChkCommand", chk_help)
    /\ startup = {}

\* Events::update_system of both channels, first in every frame: the older
\* buffer is dropped
FrameUpdateOf(systems) ==
    /\ ran = systems
    /\ ran' = {}
    /\ key' = "None"
    /\ command_entered' = [old |-> command_entered.new, new |-> <<>>]
    /\ print_line' = [old |-> print_line.new, new |-> <<>>]
    /\ reader' =
         [r \in DOMAIN reader |->
            LET dropped == IF r \in DOMAIN command
                           THEN Len(command_entered.old)
                           ELSE Len(print_line.old)
            IN IF reader[r] > dropped THEN reader[r] - dropped ELSE 0]
    /\ command' = [b \in DOMAIN command |-> None]
    /\ taken' = [b \in DOMAIN taken |-> None]
    /\ UNCHANGED <<buf, scrollback, history, history_index, history_size,
                   browse, chk_help, sent, registryVars>>

FrameUpdate == FrameUpdateOf(DispatchSystems)

\* lines that the events in flight may still add to the scrollback
InFlight ==
    Len(Buffered(print_line)) + 2 * Len(Buffered(command_entered))

\* terminal_ui in a frame in which a line was entered and Enter pressed
SubmitLine ==
    /\ UiRuns
    /\ \E t \in CommandLines :
          /\ Len(scrollback) + InFlight + Len(SubmitLines(t)) + 2
                <= MaxDispatchLines
          /\ scrollback' = scrollback \o SubmitLines(t)
          /\ history' = SubmitHistory(history, t, history_size)
          /\ command_entered' =
                [command_entered EXCEPT !.new = @ \o SubmitEvents(t)]
          /\ buf' = SubmitBuf(t)
    /\ key' = "Enter"
    /\ browse' = NoBrowse
    /\ UNCHANGED history_index

\* variants of BinderRuns: a rejection that forgets the history, and one
\* cursor shared by all binders
BinderRunsDropsHistory(b, p, t) ==
    /\ b \notin ran
    /\ ran' = ran \cup {b}
    /\ reader' = [reader EXCEPT ![b] = @ + p.read]
    /\ command' = [command EXCEPT ![b] = t.slot]
    /\ taken' = [taken EXCEPT ![b] = t.ret]
    /\ history' = IF p.lines # <<>> THEN <<Empty>> ELSE history
    /\ UNCHANGED <<buf, history_index, history_size,
                   command_entered, key, browse, chk_help, sent, registryVars>>
BinderRunsSharedReader(b, p, t) ==
    /\ b \notin ran
    /\ ran' = ran \cup {b}
    /\ reader' = [r \in Readers |->
                     IF r \in Binders THEN reader[b] + p.read ELSE reader[r]]
    /\ command' = [command EXCEPT ![b] = t.slot]
    /\ taken' = [taken EXCEPT ![b] = t.ret]
    /\ UNCHANGED <<buf, history, history_index, history_size,
                   command_entered, key, browse, chk_help, sent, registryVars>>

\* a system with a TerminalCommand parameter runs: get_param, then the body
BinderRuns(b, p, t) ==
    /\ b \notin ran
    /\ ran' = ran \cup {b}
    /\ reader' = [reader EXCEPT ![b] = @ + p.read]
    /\ command' = [command EXCEPT ![b] = t.slot]
    /\ taken' = [taken EXCEPT ![b] = t.ret]
    /\ UNCHANGED <<buf, history, history_index, history_size,
                   command_entered, key, browse, chk_help, sent, registryVars>>

ClearCommandRuns ==
    LET p == get_param("ClearCommand", chk_help,
                       Unseen(command_entered, reader["clear_command"]))
        t == Take(p.command)
    IN /\ BinderRuns("clear_command", p, t)
       /\ print_line' = [print_line EXCEPT !.new = @ \o p.lines]
       /\ scrollback' = ClearScrollback(t.ret, scrollback)

ChkCommandRuns ==
    LET p == get_param("ChkCommand", chk_help,
                       Unseen(command_entered, reader["chk_command"]))
        t == Take(p.command)
    IN /\ BinderRuns("chk_command", p, t)
       /\ print_line' =
             [print_line EXCEPT !.new = @ \o p.lines \o ChkLines(t.ret)]
       /\ UNCHANGED scrollback

\* a receiver that shows only the lines just read
ReceiveTerminalLineReplace ==
    /\ "receive_terminal_line" \notin ran
    /\ ran' = ran \cup {"receive_terminal_line"}
    /\ scrollback' = Unseen(print_line, reader["receive_terminal_line"])
    /\ reader' = [reader EXCEPT
                     !["receive_terminal_line"] = Len(Buffered(print_line))]
    /\ UNCHANGED <<buf, history, history_index, history_size,
                   command_entered, key, browse, print_line, command, taken,
                   chk_help, sent, registryVars>>

\* a receiver that reads both buffers anew in every frame
ReceiveTerminalLineAll ==
    /\ "receive_terminal_line" \notin ran
    /\ ran' = ran \cup {"receive_terminal_line"}
    /\ scrollback' = scrollback \o Buffered(print_line)
    /\ reader' = [reader EXCEPT
                     !["receive_terminal_line"] = Len(Buffered(print_line))]
    /\ UNCHANGED <<buf, history, history_index, history_size,
                   command_entered, key, browse, print_line, command, taken,
                   chk_help, sent, registryVars>>

\* receive_terminal_line: every unseen print-line event goes to scrollback
ReceiveTerminalLine ==
    /\ "receive_terminal_line" \notin ran
    /\ ran' = ran \cup {"receive_terminal_line"}
    /\ scrollback' =
          scrollback \o Unseen(print_line, reader["receive_terminal_line"])
    /\ reader' = [reader EXCEPT
                     !["receive_terminal_line"] = Len(Buffered(print_line))]
    /\ UNCHANGED <<buf, history, history_index, history_size,
                   command_entered, key, browse, print_line, command, taken,
                   chk_help, sent, registryVars>>

NextDispatch ==
    \/ FrameUpdate
    \/ Idle
    \/ SubmitLine
    \/ ClearCommandRuns
    \/ ChkCommandRuns
    \/ ReceiveTerminalLine

SpecDispatch == InitDispatch /\ [][NextDispatch]_vars

----------------------------------------------------------------------------
(* The handlers of the help command and of the example's log command.      *)

\* help_command: one line of the listing
ListLine(entry, longest) ==
    <<"  ">> \o entry.key \o Repeat(Space, longest - Len(entry.key))
       \o (IF entry.value # None /\ entry.value[1].description # None
           THEN <<" - ">> \o entry.value[1].description[1]
           ELSE <<>>)

\* help_command: the replies for what take() returned and the registry m
HelpLinesNoDistinction(t, m) ==
    IF t = None THEN <<>>
    ELSE IF t[1].command # None
    THEN LET cmd == t[1].command[1]
             e == BTreeGet(m, cmd)
         IN IF e # None /\ e[1] # None THEN <<help_text(e[1][1])>>
            ELSE <<<<"Command '">> \o cmd \o <<"' does not exist">>>>
    ELSE <<<<"Available commands:">>>>
            \o [i \in 1..Len(m) |->
                  ListLine(m[i], Max({Len(m[j].key) : j \in 1..Len(m)}))]
            \o <<Empty>>
HelpLines(t, m) ==
    IF t = None THEN <<>>
    ELSE IF t[1].command # None
    THEN LET cmd == t[1].command[1]
             e == BTreeGet(m, cmd)
         IN IF e = None
            THEN <<<<"Command '">> \o cmd \o <<"' does not exist">>>>
            ELSE IF e[1] = None
            THEN <<<<"Help not available for command '">> \o cmd \o <<"'">>>>
            ELSE <<help_text(e[1][1])>>
    ELSE <<<<"Available commands:">>>>
            \o [i \in 1..Len(m) |->
                  ListLine(m[i], Max({Len(m[j].key) : j \in 1..Len(m)}))]
            \o <<Empty>>

\* log_command: msg once for each of 0..num.unwrap_or(1), then ok()
LogLinesOnce(t) ==
    IF t = None THEN <<>> ELSE <<t[1].msg, <<"[ok]">>>>
LogLines(t) ==
    IF t = None THEN <<>>
    ELSE LET repeat_count == IF t[1].num = None THEN 1 ELSE t[1].num[1]
         IN Repeat(t[1].msg, IF repeat_count > 0 THEN repeat_count ELSE 0)
               \o <<<<"[ok]">>>>

----------------------------------------------------------------------------
(* The help specification: an app with TerminalPlugin, the log command of  *)
(* the example and the host's chk command. The startup systems register    *)
(* the commands in any order; then the UI, the help binder and the         *)
(* receiver run once per frame in any order. Every line entered names      *)
(* help, so that the other binders never match and are left out.           *)

\* scrollback lines, sent or still to come, that a run may bring about
MaxHostLines == 8

LineHelp == NameHelp
LineHelpClear == NameHelp \o <<Space>> \o NameClear
LineHelpChk == NameHelp \o <<Space>> \o NameChk
LineHelpBogus == NameHelp \o <<Space, "b", "o", "g", "u", "s">>

HostLines == {LineHelp, LineHelpClear, LineHelpChk, LineHelpBogus}

HostTypes ==
    {"ClearCommand", "ExitCommand", "HelpCommand", "LogCommand",
     "ChkCommand"}

HostSystems == {"terminal_ui", "help_command", "receive_terminal_line"}

InitHost ==
    /\ SessionFresh
    /\ history_size = 1
    /\ print_line = [old |-> <<>>, new |-> <<>>]
    /\ reader = [r \in {"help_command", "receive_terminal_line"} |-> 0]
    /\ command = [b \in {"help_command"} |-> None]
    /\ taken = [b \in {"help_command"} |-> None]
    /\ sent = <<>>
    /\ chk_help \in BOOLEAN
    /\ commands = <<>>
    /\ startup = HostTypes

\* the print lines the binder and the handler of an event's command send
HostReplies(e, m, chk) ==
    IF e.command = NameHelp
    THEN LET p == get_param("HelpCommand", chk, <<e>>)
         IN p.lines \o HelpLines(Take(p.command).ret, m)
    ELSE IF e.command = NameLog
    THEN LET p == get_param("LogCommand", chk, <<e>>)
         IN p.lines \o LogLines(Take(p.command).ret)
    ELSE <<>>

RECURSIVE HostCost(_, _, _)
HostCost(es, m, chk) ==
    IF es = <<>> THEN 0
    ELSE Len(HostReplies(es[1], m, chk)) + HostCost(Tail(es), m, chk)

\* lines that the events in flight may still add to the scrollback
HostInFlight ==
    Len(Buffered(print_line))
       + HostCost(Buffered(command_entered), commands, chk_help)

HostFrameUpdate == FrameUpdateOf(HostSystems)

HostIdle == startup = {} /\ Idle

\* terminal_ui in a frame in which a line out of lines was entered and Enter
\* pressed, while the scrollback stays within max lines
SubmitOneOf(lines, max) ==
    /\ UiRuns
    /\ \E t \in lines :
          /\ Len(scrollback) + HostInFlight + Len(SubmitLines(t))
                + HostCost(SubmitEvents(t), commands, chk_help) <= max
          /\ scrollback' = scrollback \o SubmitLines(t)
          /\ history' = SubmitHistory(history, t, history_size)
          /\ command_entered' =
                [command_entered EXCEPT !.new = @ \o SubmitEvents(t)]
          /\ buf' = SubmitBuf(t)
    /\ key' = "Enter"
    /\ browse' = NoBrowse
    /\ UNCHANGED history_index

HostSubmitLine == startup = {} /\ SubmitOneOf(HostLines, MaxHostLines)

\* a system with a TerminalCommand parameter runs and sends lines
HostBinderRuns(b, p, t, lines) ==
    /\ b \notin ran
    /\ ran' = ran \cup {b}
    /\ reader' = [reader EXCEPT ![b] = @ + p.read]
    /\ command' = [command EXCEPT ![b] = t.slot]
    /\ taken' = [taken EXCEPT ![b] = t.ret]
    /\ print_line' = [print_line EXCEPT !.new = @ \o lines]
    /\ sent' = sent \o lines
    /\ UNCHANGED <<buf, scrollback, history, history_index, history_size,
                   command_entered, key, browse, chk_help, registryVars>>

HelpCommandRuns ==
    /\ startup = {}
    /\ LET p == get_param("HelpCommand", chk_help,
                          Unseen(command_entered, reader["help_command"]))
           t == Take(p.command)
       IN HostBinderRuns("help_command", p, t,
                         p.lines \o HelpLines(t.ret, commands))

HostReceive == startup = {} /\ ReceiveTerminalLine

NextHost ==
    \/ Register
    \/ HostFrameUpdate
    \/ HostIdle
    \/ HostSubmitLine
    \/ HelpCommandRuns
    \/ HostReceive

SpecHost == InitHost /\ [][NextHost]_vars

----------------------------------------------------------------------------
(* The console specification: the apps of the examples log_command and     *)
(* write_to_console in one. The UI, the log binder, write_to_terminal and  *)
(* the receiver run once per frame in any order; the scrollback is never   *)
(* cleared, and sent records every print line sent.                        *)

\* scrollback lines, sent or still to come, that a run may bring about
MaxConsoleLines == 9

LineLogHello3 ==
    NameLog \o <<Space, Quote, "h", "e", "l", "l", "o", Quote, Space, "3">>
LineLog == NameLog

ConsoleLines == {LineLogHello3, LineLog, LineNope, LineUnterminated}

ConsoleSystems ==
    {"terminal_ui", "log_command", "write_to_terminal",
     "receive_terminal_line"}

InitConsole ==
    /\ SessionFresh
    /\ history_size = 1
    /\ print_line = [old |-> <<>>, new |-> <<>>]
    /\ reader = [r \in {"log_command", "receive_terminal_line"} |-> 0]
    /\ command = [b \in {"log_command"} |-> None]
    /\ taken = [b \in {"log_command"} |-> None]
    /\ sent = <<>>
    /\ chk_help = FALSE
    /\ commands = register(BuiltinCommands, "LogCommand", FALSE)
    /\ startup = {}

ConsoleFrameUpdate == FrameUpdateOf(ConsoleSystems)

ConsoleSubmitLine == SubmitOneOf(ConsoleLines, MaxConsoleLines)

LogCommandRuns ==
    LET p == get_param("LogCommand", chk_help,
                       Unseen(command_entered, reader["log_command"]))
        t == Take(p.command)
    IN HostBinderRuns("log_command", p, t, p.lines \o LogLines(t.ret))

\* write_to_terminal: sends Hello in every frame
WriteToTerminal ==
    /\ "write_to_terminal" \notin ran
    /\ Len(scrollback) + HostInFlight + 1 <= MaxConsoleLines
    /\ ran' = ran \cup {"write_to_terminal"}
    /\ print_line' = [print_line EXCEPT !.new = Append(@, <<"Hello">>)]
    /\ sent' = Append(sent, <<"Hello">>)
    /\ UNCHANGED <<buf, scrollback, history, history_index, history_size,
                   command_entered, key, browse, reader, command, taken,
                   chk_help, registryVars>>

NextConsole ==
    \/ ConsoleFrameUpdate
    \/ Idle
    \/ ConsoleSubmitLine
    \/ LogCommandRuns
    \/ WriteToTerminal
    \/ ReceiveTerminalLine

SpecConsole == InitConsole /\ [][NextConsole]_vars

----------------------------------------------------------------------------
(* The help text specification: a host command with any schema out of a    *)
(* bounded set is registered, and its help text is sent as a reply.        *)

\* the most arguments of a schema
MaxArgs == 2

ArgSchemas ==
    {ArgInfo(n, t, d, o) :
        n \in {<<"x">>, <<"y", "z">>},
        t \in {<<"i", "n", "t">>, <<"s", "t", "r", "i", "n", "g">>},
        d \in {None, Some(<<"d">>)},
        o \in BOOLEAN}

SeqsUpTo(S, n) == UNION {[1..k -> S] : k \in 0..n}

Schemas ==
    {Info(<<"c", "m", "d">>, d, as) :
        d \in {None, Some(<<"one">>),
               Some(<<"one", "\n", Space, "two", "\n", Space, Space, "three">>)},
        as \in SeqsUpTo(ArgSchemas, MaxArgs)}

InitHelpText ==
    /\ SessionFresh
    /\ history_size = 1
    /\ DispatchIdle
    /\ chk_help = FALSE
    /\ startup = {}
    /\ \E info \in Schemas : commands = BTreeInsert(<<>>, info.name, Some(info))

\* help.reply(command_info.help_text())
HelpTextReply ==
    /\ print_line.new = <<>>
    /\ print_line' =
          [print_line EXCEPT !.new = <<help_text(commands[1].value[1])>>]
    /\ UNCHANGED <<sessionVars, reader, command, taken, chk_help, sent,
                   registryVars>>

NextHelpText == HelpTextReply

SpecHelpText == InitHelpText /\ [][NextHelpText]_vars

----------------------------------------------------------------------------
(* Properties.                                                             *)

\* whitespace-only text, as the properties understand it
Blank(s) == \A i \in DOMAIN s : s[i] = " "

\* number of echo lines in the scrollback, one per non-blank Submit
Echoes ==
    Cardinality({i \in 1..Len(scrollback) :
                    scrollback[i] # <<>> /\ scrollback[i][1] = "$ "})

LastLine == scrollback[Len(scrollback)]

(* C1: with a fixed history_size k, the history (scratch slot included)    *)
(* never holds more than k + 1 entries.                                    *)
HistoryBound == Len(history) <= history_size + 1

\* more non-blank Submits than history_size have happened
HistoryBoundWitness ==
    /\ key = "Enter"
    /\ Echoes > history_size
    /\ Len(history) = history_size + 1

(* C2: the history index always points into the history:                   *)
(* 0 <= history_index < history.len().                                     *)
CursorInRange == history_index \in 0..(Len(history) - 1)

\* a parse-failing Submit made while the index is at the oldest entry of a
\* full history
CursorInRangeWitness ==
    /\ key = "Enter"
    /\ scrollback # <<>> /\ LastLine = ErrorLine
    /\ history_index = history_size
    /\ Echoes > history_size

(* C3: after every Submit of a non-blank edit buffer history_index is 0.   *)
SubmitResetsCursor ==
    [][(key' = "Enter" /\ ~Blank(buf)) => history_index' = 0]_vars

(* C4: after every Submit of a non-blank edit buffer the edit buffer is    *)
(* empty, whether or not the line parsed.                                  *)
SubmitClearsBuf ==
    [][(key' = "Enter" /\ ~Blank(buf)) => buf' = <<>>]_vars

\* a parse-failing Submit, after a parsing one, has left the buffer empty
SubmitClearsBufWitness ==
    /\ key = "Enter"
    /\ buf = <<>>
    /\ Len(scrollback) = 3
    /\ scrollback[1] = <<"$ ", "a">>
    /\ LastLine = ErrorLine

(* C5: scenario 5. From a fresh session with history_size = 2, Submits of  *)
(* a, b, c leave the history ["", c, b]; the first ArrowUp then shows c,   *)
(* the second shows b, and an ArrowDown shows c again.                     *)
Fresh ==
    /\ history_size = 2 /\ history = <<Empty>> /\ history_index = 0
    /\ scrollback = <<>>
AfterA ==
    /\ history_size = 2 /\ history = <<Empty, LineA>> /\ history_index = 0
    /\ scrollback = <<EchoLine(LineA)>>
AfterAB ==
    /\ history_size = 2 /\ history = <<Empty, LineB, LineA>>
    /\ history_index = 0
    /\ scrollback = <<EchoLine(LineA), EchoLine(LineB)>>
AfterABC ==
    /\ history_size = 2 /\ history = <<Empty, LineC, LineB>>
    /\ scrollback = <<EchoLine(LineA), EchoLine(LineB), EchoLine(LineC)>>
AfterSubmits == AfterABC /\ history_index = 0 /\ buf = <<>>
AfterUp1 == AfterABC /\ history_index = 1 /\ key = "ArrowUp"
AfterUp2 == AfterABC /\ history_index = 2 /\ key = "ArrowUp"

Scenario5Submits ==
    /\ [][(Fresh /\ buf = LineA /\ key' = "Enter") => AfterA']_vars
    /\ [][(AfterA /\ buf = LineB /\ key' = "Enter") => AfterAB']_vars
    /\ [][(AfterAB /\ buf = LineC /\ key' = "Enter") => AfterSubmits']_vars

SubmitInsertsAtIndexOne ==
    [][(key' = "Enter" /\ ~Blank(buf)) =>
          /\ Len(history') = IF Len(history) + 1 > history_size + 1
                             THEN Len(history) ELSE Len(history) + 1
          /\ history'[1] = history[1]
          /\ history'[2] = buf
          /\ \A i \in 3..Len(history') : history'[i] = history[i - 1]]_vars

\* a trimming Submit that kept a snapshot in the scratch slot
SubmitInsertsWitness ==
    /\ key = "Enter"
    /\ history[1] # <<>>
    /\ Len(history) = history_size + 1
    /\ Echoes = history_size + 1

(* C7: a Submit of an empty or whitespace-only buffer appends one empty    *)
(* line to the scrollback and changes nothing else: no event is sent, and  *)
(* history, history_index and the edit buffer stay as they were.           *)
BlankSubmit ==
    [][(key' = "Enter" /\ Blank(buf)) =>
          /\ scrollback' = Append(scrollback, <<>>)
          /\ UNCHANGED <<history, history_index, buf, command_entered>>]_vars

\* a whitespace-only Submit made while browsing the history
BlankSubmitWitness ==
    /\ key = "Enter"
    /\ buf = <<" ">>
    /\ scrollback # <<>> /\ LastLine = <<>>
    /\ history_index > 0

(* C8: a non-blank line that fails to parse adds the echo line and then    *)
(* the fixed error line to the scrollback and sends no command-entered     *)
(* event.                                                                  *)
ParseFailure ==
    [][(key' = "Enter" /\ ~Blank(buf) /\ ~parse_terminal_command(buf).ok) =>
          /\ scrollback' = scrollback \o
                 <<(<<"$ ">> \o buf), <<"[error] invalid argument(s)">>>>
          /\ UNCHANGED command_entered]_vars

\* the error line follows the echo of the unterminated line; nothing sent
ParseFailureWitness ==
    /\ key = "Enter"
    /\ Len(scrollback) >= 2
    /\ LastLine = ErrorLine
    /\ scrollback[Len(scrollback) - 1] = EchoLine(LineUnterminated)
    /\ command_entered.new = <<>>

(* C9: ArrowUp changes neither the edit buffer, nor the history (slot 0    *)
(* included), nor history_index when the history holds only the scratch    *)
(* slot or history_index is already history.len() - 1.                     *)
UpNoOp ==
    [][(/\ key' = "ArrowUp"
        /\ (Len(history) = 1 \/ history_index = Len(history) - 1)) =>
          UNCHANGED <<buf, history, history_index>>]_vars

\* ArrowUp at the oldest entry with text typed over it: the text stayed
UpNoOpWitness ==
    /\ key = "ArrowUp"
    /\ Len(history) > 1
    /\ history_index = Len(history) - 1
    /\ buf # history[history_index + 1]
    /\ ~Blank(buf)

(* C10: from history_index 0 with non-blank text t in the edit buffer,     *)
(* n >= 1 effective ArrowUp steps followed by n ArrowDown steps, with no   *)
(* Submit or typing in between, leave exactly t in the edit buffer.        *)
BrowseRoundTrip ==
    (browse.phase = "down" /\ history_index = 0) => buf = browse.t

\* two steps up and two steps down again
BrowseRoundTripWitness ==
    /\ browse.phase = "down"
    /\ browse.n = 2
    /\ history_index = 0
    /\ key = "ArrowDown"
    /\ buf = LineC

(* C11: every ArrowUp that is not a no-op raises history_index by exactly  *)
(* 1, every ArrowDown that is not a no-op lowers it by exactly 1, and in   *)
(* both cases the edit buffer then equals history[history_index].          *)
Browsed == <<buf, history, history_index>>

ArrowStep ==
    [][/\ (key' = "ArrowUp" /\ Browsed' # Browsed) =>
             /\ history_index' = history_index + 1
             /\ buf' = history'[history_index' + 1]
       /\ (key' = "ArrowDown" /\ Browsed' # Browsed) =>
             /\ history_index' = history_index - 1
             /\ buf' = history'[history_index' + 1]
       /\ (/\ key' = "ArrowUp"
           /\ Len(history) > 1 /\ history_index < Len(history) - 1) =>
             history_index' # history_index
       /\ (key' = "ArrowDown" /\ history_index > 0) =>
             history_index' # history_index]_vars

\* ArrowDown has stepped from the oldest of two entries to the newer one,
\* which differs from it
ArrowStepWitness ==
    /\ key = "ArrowDown"
    /\ Len(history) = 3
    /\ history_index = 1
    /\ history[2] # history[3]
    /\ buf = history[2]

(* C12: ArrowDown at history_index 0 changes neither the edit buffer, nor  *)
(* the history, nor history_index; the buffer is not overwritten by        *)
(* slot 0.                                                                 *)
DownNoOp ==
    [][(key' = "ArrowDown" /\ history_index = 0) =>
          UNCHANGED <<buf, history, history_index>>]_vars

\* ArrowDown at the scratch slot with text that slot 0 does not hold
DownNoOpWitness ==
    /\ key = "ArrowDown"
    /\ history_index = 0
    /\ ~Blank(buf)
    /\ buf # history[1]
    /\ Len(history) > 1

\* the system b runs in this step
Runs(b) == b \in ran' /\ b \notin ran

\* the events named for the binder b that b has not read, in arrival order
Named(b) ==
    LET all == command_entered.old \o command_entered.new IN
    SelectSeq(SubSeq(all, reader[b] + 1, Len(all)),
              LAMBDA e : e.command = command_name(BinderType(b)))

\* the conversion of the first of them
Converted(b) == from_values(BinderType(b), Head(Named(b)).args)

\* the binder b runs on a pending event whose conversion fails in one of kinds
Rejects(b, kinds) ==
    /\ Runs(b)
    /\ Named(b) # <<>>
    /\ ~Converted(b).ok
    /\ Converted(b).err \in kinds

\* the binder b runs on a pending event whose conversion succeeds
Binds(b) == Runs(b) /\ Named(b) # <<>> /\ Converted(b).ok

\* this step sends exactly the print-line events ls, in this order
Sends(ls) == print_line' = [print_line EXCEPT !.new = @ \o ls]

(* C13: when the clear command is bound in a cycle its handler empties the *)
(* scrollback and leaves history, history_index and the edit buffer as     *)
(* they were; when it is not bound the handler changes nothing.            *)
ClearHandler ==
    [][Runs("clear_command") =>
          IF Named("clear_command") # <<>>
          THEN /\ scrollback' = <<>>
               /\ UNCHANGED <<history, history_index, buf>>
          ELSE UNCHANGED <<scrollback, history, history_index, buf,
                           print_line, command_entered>>]_vars

\* clear was entered, echoed and bound: the scrollback is empty again
ClearHandlerWitness ==
    /\ "clear_command" \in ran
    /\ taken["clear_command"] # None
    /\ scrollback = <<>>
    /\ history = <<Empty, LineClear>>
    /\ key = "Enter"

(* C14: in a cycle in which a command is bound, the handler's take returns *)
(* it and leaves the accessor empty, so that any further take in the cycle *)
(* returns nothing; in a cycle without a bound command take returns        *)
(* nothing.                                                                *)
TakeOnce ==
    [][\A b \in Binders :
          /\ Binds(b) =>
                /\ taken'[b] = Some(Converted(b).value)
                /\ command'[b] = None
          /\ (Runs(b) /\ ~Binds(b)) =>
                /\ taken'[b] = None
                /\ command'[b] = None]_vars

\* chk 1 was bound and taken
TakeOnceWitness ==
    /\ "chk_command" \in ran
    /\ taken["chk_command"] = Some([type |-> "ChkCommand", n |-> 1])
    /\ command["chk_command"] = None

(* C15: when the conversion fails with NotEnoughArgs, UnexpectedArgType or *)
(* Custom, the binder sends the error text and then, if the command has    *)
(* stored help, the help text, and nothing else; the accessor yields       *)
(* nothing in that cycle.                                                  *)
HelpKinds == {"NotEnoughArgs", "UnexpectedArgType", "Custom"}

RejectionReplies ==
    [][\A b \in Binders :
          Rejects(b, HelpKinds) =>
             /\ Sends(<<ErrorText(Converted(b).err)>>
                      \o (IF command_help(BinderType(b), chk_help) # None
                          THEN <<help_text(
                                   command_help(BinderType(b), chk_help)[1])>>
                          ELSE <<>>))
             /\ taken'[b] = None
             /\ command'[b] = None]_vars

\* C15 as the specification words it: exactly two replies in every case
RejectionTwoReplies ==
    [][\A b \in Binders :
          Rejects(b, HelpKinds) =>
             /\ Len(print_line'.new) = Len(print_line.new) + 2
             /\ taken'[b] = None
             /\ command'[b] = None]_vars

\* chk 0 was rejected with Custom: the error text, then the help text
RejectionRepliesWitness ==
    /\ "chk_command" \in ran
    /\ chk_help
    /\ taken["chk_command"] = None
    /\ print_line.new = <<ErrorText("Custom"), help_text(ChkInfo)>>
    /\ \E i \in 1..Len(command_entered.new) :
          /\ command_entered.new[i].command = NameChk
          /\ from_values("ChkCommand", command_entered.new[i].args).err
                = "Custom"

(* C16: when the conversion fails with ValueTooLarge the binder sends the  *)
(* error text alone, never the help text, whether or not the command has   *)
(* stored help; the accessor yields nothing in that cycle.                 *)
TooLargeOneReply ==
    [][\A b \in Binders :
          Rejects(b, {"ValueTooLarge"}) =>
             /\ Sends(<<ErrorText("ValueTooLarge")>>)
             /\ taken'[b] = None
             /\ command'[b] = None]_vars

\* chk 9 was rejected although chk has stored help: one reply
TooLargeOneReplyWitness ==
    /\ "chk_command" \in ran
    /\ chk_help
    /\ taken["chk_command"] = None
    /\ print_line.new = <<ErrorText("ValueTooLarge")>>
    /\ \E i \in 1..Len(command_entered.new) :
          /\ command_entered.new[i].command = NameChk
          /\ from_values("ChkCommand", command_entered.new[i].args).err
                = "ValueTooLarge"

(* C17: when the conversion succeeds the binder sends no print-line event: *)
(* the replies of the cycle are the ones the handler itself sends.         *)
HandlerReplies(b) ==
    CASE b = "clear_command" -> <<>>
      [] b = "chk_command" -> <<<<"[ok]">>>>

BoundNoBinderReply ==
    [][\A b \in Binders : Binds(b) => Sends(HandlerReplies(b))]_vars

\* chk 1 was bound: the only reply is the handler's ok
BoundNoBinderReplyWitness ==
    /\ "chk_command" \in ran
    /\ taken["chk_command"] # None
    /\ print_line = [old |-> <<>>, new |-> <<<<"[ok]">>>>]

(* C18: a line whose command name no binder carries adds its echo to the   *)
(* scrollback and nothing else: a binder that finds no event of its own    *)
(* name binds nothing and sends nothing, and print-line events are sent    *)
(* only by a binder that found an event of its own name.                   *)
BinderNames == {command_name(BinderType(b)) : b \in Binders}

UnknownCommand ==
    [][/\ (/\ key' = "Enter"
           /\ Len(command_entered'.new) = Len(command_entered.new) + 1
           /\ command_entered'.new[Len(command_entered'.new)].command
                 \notin BinderNames) =>
             /\ scrollback' = Append(scrollback, <<"$ ">> \o history'[2])
             /\ UNCHANGED print_line
       /\ \A b \in Binders :
             (Runs(b) /\ Named(b) = <<>>) =>
                /\ taken'[b] = None
                /\ command'[b] = None
                /\ UNCHANGED <<print_line, scrollback>>
       /\ (print_line'.new # print_line.new /\ ran' # {}) =>
             \E b \in Binders : Runs(b) /\ Named(b) # <<>>]_vars

\* nope was entered and every system has run on it: only the echo is there
UnknownCommandWitness ==
    /\ ran = DispatchSystems
    /\ command_entered.old = <<[command |-> LineNope, args |-> <<>>]>>
    /\ command_entered.new = <<>>
    /\ \A b \in Binders : reader[b] = 1 /\ taken[b] = None
    /\ scrollback = <<<<"$ ">> \o LineNope>>
    /\ print_line = [old |-> <<>>, new |-> <<>>]

(* C19: when several events of one command name are pending, the binder    *)
(* evaluates only the first in arrival order in that cycle; the later ones *)
(* stay pending for it, and no event of its name leaves the channel        *)
(* before the binder has read it.                                          *)
DuplicatesOnePerCycle ==
    [][\A b \in Binders :
          /\ (Runs(b) /\ Len(Named(b)) >= 2) =>
                /\ taken'[b] = IF Converted(b).ok
                               THEN Some(Converted(b).value) ELSE None
                /\ Named(b)' = Tail(Named(b))
          /\ (ran' = {} /\ ran # {}) =>
                \A i \in 1..Len(command_entered.old) :
                   command_entered.old[i].command
                      = command_name(BinderType(b)) => i <= reader[b]]_vars

\* chk 1 and chk were both pending: chk 1 was evaluated, chk is left
DuplicatesWitness ==
    /\ "chk_command" \in ran
    /\ command_entered.old = <<[command |-> NameChk,
                                args |-> <<[tag |-> "Number",
                                            val |-> <<"1">>]>>]>>
    /\ command_entered.new = <<[command |-> NameChk, args |-> <<>>]>>
    /\ reader["chk_command"] = 1
    /\ taken["chk_command"] = Some([type |-> "ChkCommand", n |-> 1])

(* C25: a binder run that rejects a command, whatever the kind of the    *)
(* conversion failure, leaves the registry, history, history_index and the *)
(* edit buffer as they were, and the scrollback and the command channel    *)
(* too: it only sends its reply lines.                                     *)
AllKinds == {"NotEnoughArgs", "UnexpectedArgType", "Custom", "ValueTooLarge"}

RejectionLeavesState ==
    [][\A b \in Binders :
          Rejects(b, AllKinds) =>
             /\ UNCHANGED <<commands, history, history_index, buf,
                            scrollback, command_entered>>
             /\ print_line'.old = print_line.old
             /\ Len(print_line'.new) > Len(print_line.new)]_vars

\* chk x was entered after chk 1 and rejected: the history still holds it
RejectionLeavesStateWitness ==
    /\ "chk_command" \in ran
    /\ history = <<Empty, LineChkX>>
    /\ print_line.new # <<>>
    /\ print_line.new[1] = ErrorText("UnexpectedArgType")
    /\ Len(commands) = 4
    /\ Len(scrollback) >= 2

(* C26: the scrollback is append-only: after every step the old scrollback *)
(* is a prefix of the new one, except the step in which clear_command runs *)
(* on a bound clear command, which empties it.                             *)
IsPrefix(s, t) == Len(s) <= Len(t) /\ SubSeq(t, 1, Len(s)) = s

ScrollbackAppendOnly ==
    [][\/ IsPrefix(scrollback, scrollback')
       \/ /\ Runs("clear_command")
          /\ Named("clear_command") # <<>>
          /\ scrollback' = <<>>]_vars

\* an echo, the two replies to it, and the echo of the next line
ScrollbackAppendOnlyWitness ==
    /\ Len(scrollback) = 4
    /\ scrollback[1] = <<"$ ">> \o LineChk
    /\ scrollback[2] = ErrorText("NotEnoughArgs")
    /\ scrollback[3] = help_text(ChkInfo)
    /\ scrollback[4][1] = "$ "

(* C27: the binders read the command channel independently: a run of one   *)
(* binder leaves the pending events of every other binder pending, and a   *)
(* binder evaluates the first event of its own name although events of     *)
(* other names arrived before or after it, in every order of the systems.  *)
IndependentBinders ==
    [][\A b \in Binders :
          Runs(b) =>
             /\ \A c \in Binders \ {b} :
                   Named(c)' = Named(c) /\ reader'[c] = reader[c]
             /\ Named(b) # <<>> =>
                   /\ taken'[b] = IF Converted(b).ok
                                  THEN Some(Converted(b).value) ELSE None
                   /\ Len(Named(b)') = Len(Named(b)) - 1]_vars

\* clear arrived before chk 1 and both were bound by their binders
IndependentBindersWitness ==
    /\ command_entered.old = <<[command |-> NameClear, args |-> <<>>]>>
    /\ Len(command_entered.new) = 1
    /\ command_entered.new[1].command = NameChk
    /\ taken["clear_command"] # None
    /\ taken["chk_command"] # None
    /\ {"clear_command", "chk_command"} \subseteq ran

(* C23: the usage line of a help text is the command name followed by    *)
(* every argument of the schema in declared order, each in angle brackets  *)
(* when it is required and in square brackets when it is optional.         *)

\* the text between the prompt of the usage line and the end of that line
UsageLine(text) ==
    LET end == CHOOSE j \in 3..Len(text) :
                  text[j] = "\n" /\ \A k \in 3..(j - 1) : text[k] # "\n"
    IN SubSeq(text, 3, end - 1)

\* the words of a line: the text between its spaces
RECURSIVE Words(_, _)
Words(s, cur) ==
    IF s = <<>> THEN <<cur>>
    ELSE IF s[1] = Space THEN <<cur>> \o Words(Tail(s), <<>>)
    ELSE Words(Tail(s), Append(cur, s[1]))

UsageLineBrackets ==
    print_line.new # <<>> =>
       LET info == commands[1].value[1]
           text == print_line.new[1]
           w == Words(UsageLine(text), <<>>)
       IN /\ text[1] = "Usage:\n\n"
          /\ text[2] = "  > "
          /\ Len(w) = 1 + Len(info.args)
          /\ w[1] = info.name
          /\ \A i \in 1..Len(info.args) :
                w[i + 1] = IF info.args[i].optional
                           THEN <<"[">> \o info.args[i].name \o <<"]">>
                           ELSE <<"<">> \o info.args[i].name \o <<">">>

\* the text of a schema with a required and then an optional argument
UsageLineBracketsWitness ==
    /\ print_line.new # <<>>
    /\ Len(commands[1].value[1].args) = 2
    /\ ~commands[1].value[1].args[1].optional
    /\ commands[1].value[1].args[2].optional
    /\ UsageLine(print_line.new[1])
          = <<"c", "m", "d", Space, "<", "x", ">", Space, "[", "y", "z", "]">>

(* C20: registering a command under a name the registry already holds      *)
(* leaves exactly one entry for that name, whose stored help is that of    *)
(* the second registration, and leaves the entries of all other names as   *)
(* they were.                                                              *)
Keys(m) == {m[i].key : i \in 1..Len(m)}
EntriesOf(m, k) == {i \in 1..Len(m) : m[i].key = k}
HelpOf(m, k) == m[CHOOSE i \in 1..Len(m) : m[i].key = k].value

Reregistration ==
    [][\A T \in CommandTypes :
          (/\ T \in startup /\ startup' = startup \ {T}
           /\ Cardinality(EntriesOf(commands, command_name(T))) > 0) =>
             /\ Cardinality(EntriesOf(commands', command_name(T))) = 1
             /\ HelpOf(commands', command_name(T)) = command_help(T, chk_help)
             /\ Keys(commands') = Keys(commands)
             /\ \A k \in Keys(commands) \ {command_name(T)} :
                   /\ Cardinality(EntriesOf(commands', k)) = 1
                   /\ HelpOf(commands', k) = HelpOf(commands, k)]_vars

\* both log commands are registered, the hand-written one last: the entry
\* of log holds no help
ReregistrationWitness ==
    /\ "LogCommand" \notin startup
    /\ "PlainLogCommand" \notin startup
    /\ Cardinality(EntriesOf(commands, <<"l", "o", "g">>)) = 1
    /\ HelpOf(commands, <<"l", "o", "g">>) = <<>>
    /\ Len(commands) >= 3

(* C21: a help invocation with a command argument c sends exactly one      *)
(* reply, chosen by the registry: the help text of c if c is registered    *)
(* with stored help, "Help not available for command 'c'" if c is          *)
(* registered without stored help, "Command 'c' does not exist" if c is    *)
(* not registered.                                                         *)
HelpReplyFor(c) ==
    IF c \notin Keys(commands)
    THEN <<"Command '">> \o c \o <<"' does not exist">>
    ELSE IF HelpOf(commands, c) = None
    THEN <<"Help not available for command '">> \o c \o <<"'">>
    ELSE help_text(HelpOf(commands, c)[1])

HelpWithArgument ==
    [][(Binds("help_command")
          /\ Converted("help_command").value.command # None) =>
             Sends(<<HelpReplyFor(
                       Converted("help_command").value.command[1])>>)]_vars

\* help chk was entered where chk is registered without stored help
HelpWithArgumentWitness ==
    /\ ~chk_help
    /\ NameChk \in Keys(commands)
    /\ scrollback = <<<<"$ ">> \o LineHelpChk,
                      <<"Help not available for command '">> \o NameChk
                         \o <<"'">>>>

(* C22: a help invocation with no argument replies with the line           *)
(* "Available commands:", then exactly one line per registered command in  *)
(* ascending order of the command names, whatever the order in which the   *)
(* commands were registered, then one empty line.                          *)

\* the command name a line of the listing starts with
NameOf(line) ==
    LET rest == Tail(line)
        letters == {Alphabet[i] : i \in 1..Len(Alphabet)}
        n == Cardinality({i \in 1..Len(rest) :
                            \A j \in 1..i : rest[j] \in letters})
    IN SubSeq(rest, 1, n)

\* the print lines sent in this step
NewLines ==
    SubSeq(print_line'.new, Len(print_line.new) + 1, Len(print_line'.new))

HelpListing ==
    [][(Binds("help_command")
          /\ Converted("help_command").value.command = None) =>
             /\ IsPrefix(print_line.new, print_line'.new)
             /\ print_line'.old = print_line.old
             /\ Len(NewLines) = Cardinality(Keys(commands)) + 2
             /\ NewLines[1] = <<"Available commands:">>
             /\ NewLines[Len(NewLines)] = <<>>
             /\ \A i \in 2..(Len(NewLines) - 1) :
                   /\ NewLines[i][1] = "  "
                   /\ NameOf(NewLines[i]) \in Keys(commands)
                   /\ i > 2 => StrLess(NameOf(NewLines[i - 1]),
                                       NameOf(NewLines[i]))]_vars

\* help was entered and its listing of the five commands delivered
HelpListingWitness ==
    /\ Len(scrollback) = 8
    /\ scrollback[1] = <<"$ ">> \o LineHelp
    /\ scrollback[2] = <<"Available commands:">>
    /\ NameOf(scrollback[3]) = NameChk
    /\ NameOf(scrollback[4]) = NameClear
    /\ NameOf(scrollback[7]) = NameLog
    /\ scrollback[8] = <<>>

(* C24: with the log command (msg: String, num: optional number), the line *)
(* log "hello" 3 yields a command-entered event with name log and the      *)
(* arguments String hello and Number 3; the bind succeeds and the handler  *)
(* sends the reply hello three times (and then its ok).                    *)
Hello3Event ==
    [command |-> <<"l", "o", "g">>,
     args |-> <<[tag |-> "String", val |-> <<"h", "e", "l", "l", "o">>],
                [tag |-> "Number", val |-> <<"3">>]>>]

Hello3Replies ==
    <<<<"h", "e", "l", "l", "o">>, <<"h", "e", "l", "l", "o">>,
      <<"h", "e", "l", "l", "o">>, <<"[ok]">>>>

LogHelloThrice ==
    [][/\ (/\ key' = "Enter"
           /\ Len(scrollback') = Len(scrollback) + 1
           /\ scrollback'[Len(scrollback')] = <<"$ ">> \o LineLogHello3) =>
             command_entered' =
                [command_entered EXCEPT !.new = Append(@, Hello3Event)]
       /\ (/\ Runs("log_command")
           /\ Named("log_command") # <<>>
           /\ Head(Named("log_command")) = Hello3Event) =>
             /\ taken'["log_command"] # None
             /\ taken'["log_command"][1].msg = <<"h", "e", "l", "l", "o">>
             /\ taken'["log_command"][1].num = <<3>>
             /\ Sends(Hello3Replies)]_vars

\* log "hello" 3 was entered, bound, and its four replies delivered
LogHelloThriceWitness ==
    /\ <<"$ ">> \o LineLogHello3 \in {scrollback[i] : i \in 1..Len(scrollback)}
    /\ \E i \in 1..Len(scrollback) :
          /\ i + 3 <= Len(scrollback)
          /\ SubSeq(scrollback, i, i + 3) = Hello3Replies
    /\ Cardinality({i \in 1..Len(scrollback) :
                       scrollback[i] = <<"h", "e", "l", "l", "o">>}) = 3

(* C28: the echo of a submitted line is in the scrollback before every     *)
(* reply a binder or handler sends for that line, in every order of the    *)
(* systems: in every prefix of the scrollback, the replies of the log      *)
(* binder and handler are replies to the log lines echoed in that prefix.  *)
IsEcho(l) == l # <<>> /\ l[1] = "$ "
IsLogEcho(l) ==
    /\ IsEcho(l)
    /\ parse_terminal_command(Tail(l)).ok
    /\ parse_terminal_command(Tail(l)).command = <<"l", "o", "g">>

\* the replies to a log line, by binder and handler
RepliesTo(line) ==
    IF line = LineLogHello3 THEN Hello3Replies
    ELSE <<ErrorText("NotEnoughArgs"), help_text(LogInfo)>>

RECURSIVE RepliesToAll(_)
RepliesToAll(echoes) ==
    IF echoes = <<>> THEN <<>>
    ELSE RepliesTo(Tail(echoes[1])) \o RepliesToAll(Tail(echoes))

\* the lines of the scrollback that the log binder or handler sent
IsLogReply(l) == ~IsEcho(l) /\ l # ErrorLine /\ l # <<"Hello">>

EchoBeforeReply ==
    \A i \in 0..Len(scrollback) :
       LET prefix == SubSeq(scrollback, 1, i) IN
       IsPrefix(SelectSeq(prefix, IsLogReply),
                RepliesToAll(SelectSeq(prefix, IsLogEcho)))

\* two log lines were entered before the replies to the first arrived
EchoBeforeReplyWitness ==
    /\ Len(scrollback) >= 4
    /\ scrollback[1] = <<"$ ">> \o LineLog
    /\ \E i \in 2..3 :
          /\ IsLogEcho(scrollback[i])
          /\ \E j \in (i + 1)..Len(scrollback) :
                scrollback[j] = ErrorText("NotEnoughArgs")
          /\ \A j \in 1..i : scrollback[j] # ErrorText("NotEnoughArgs")

(* C29: every print-line event sent, by a binder, a handler or a host      *)
(* system, is appended to the scrollback exactly once and in the order of  *)
(* sending: the lines of the scrollback that came over the channel are a   *)
(* prefix of the lines sent, and the lines sent after them are still in    *)
(* the channel.                                                            *)
Delivered == SelectSeq(scrollback, LAMBDA l : ~IsEcho(l) /\ l # ErrorLine)

IsSuffix(s, t) ==
    Len(s) <= Len(t) /\ SubSeq(t, Len(t) - Len(s) + 1, Len(t)) = s

DeliveredOnceInOrder ==
    /\ IsPrefix(Delivered, sent)
    /\ IsSuffix(SubSeq(sent, Len(Delivered) + 1, Len(sent)),
                print_line.old \o print_line.new)

\* lines of the host system and of a handler, all delivered
DeliveredOnceInOrderWitness ==
    /\ Delivered = sent
    /\ Len(sent) >= 6
    /\ sent[1] = <<"Hello">>
    /\ <<"[ok]">> \in {sent[i] : i \in 1..Len(sent)}
    /\ sent[Len(sent)] = <<"Hello">>

(* C30: every non-blank line submitted is recorded in the history at index *)
(* 1 in the same way whatever becomes of it: when it fails to parse, when  *)
(* no binder carries its command name, and when its bind is rejected.      *)
SubmitRecordsAnyFate ==
    [][(/\ key' = "Enter"
        /\ Len(scrollback') > Len(scrollback)
        /\ IsEcho(scrollback'[Len(scrollback) + 1])) =>
          LET t == Tail(scrollback'[Len(scrollback) + 1]) IN
          /\ Len(history') = IF Len(history) <= history_size
                             THEN Len(history) + 1 ELSE history_size + 1
          /\ history'[1] = history[1]
          /\ history'[2] = t
          /\ \A i \in 3..Len(history') : history'[i] = history[i - 1]]_vars

\* log was entered and rejected, after a line that did not parse
SubmitRecordsAnyFateWitness ==
    /\ history = <<Empty, LineLog>>
    /\ Len(scrollback) >= 5
    /\ scrollback[1] = <<"$ ">> \o LineUnterminated
    /\ scrollback[2] = ErrorLine
    /\ ErrorText("NotEnoughArgs") \in {scrollback[i] : i \in 1..Len(scrollback)}

(* C31: immediately after every Submit of a non-blank edit buffer the      *)
(* scratch slot history[0] is the empty string, so a snapshot ArrowUp made *)
(* before the Submit cannot be loaded back into the edit buffer.           *)
ScratchSlotEmptyAfterSubmit ==
    [][(key' = "Enter" /\ ~Blank(buf)) => history'[1] = Empty]_vars

=============================================================================
